---- MODULE Spec2Model ----
(***************************************************************************)
(* Model of frontend/src/App.js: the session manager (AuthProvider), the   *)
(* login form, the submission form and the admin dashboard, together with  *)
(* the collaborator (the HTTP API) they talk to.                           *)
(***************************************************************************)
EXTENDS Integers, Sequences, FiniteSets, Bags, TLC

(***************************************************************************)
(* Values                                                                  *)
(***************************************************************************)

\* localStorage.getItem('token') when nothing is stored
NoToken == "none"

\* the access tokens the Identity Store can issue or hold
Tokens == {"tA", "tS", "tL", "tP"}

\* useState(null) of AuthProvider.user
NoUser == [id |-> "none", role |-> "none"]

\* GET /current_user: the Identity the Identity Store resolves for a token
IdentityOf(t) ==
  CASE t = "tA" -> [id |-> "ana", role |-> "admin"]
    [] t = "tS" -> [id |-> "sam", role |-> "student"]
    [] t = "tL" -> [id |-> "lea", role |-> "student"]
    [] t = "tP" -> [id |-> "pia", role |-> "super_admin"]

\* what a handler that is not login() hands its caller
NoValue == [detail |-> "none"]

\* the routes a page load can start on that matter for the session; "/" stands
\* for every page that is neither the login form nor the admin console
SessionRoutes == {"/", "/login"}

\* the roles AdminDashboard and Header accept for the admin console
IsAdmin(u) == u.role = "admin" \/ u.role = "super_admin"

\* the collaborator's own access check of a bearer token (admin role)
IsAdminToken(t) == t \in Tokens /\ IsAdmin(IdentityOf(t))

\* the manuscripts of the catalog
MaxPapers == 2
PaperIds == 1..MaxPapers

\* a manuscript without a doi
NoDoi == <<>>

\* the doi the collaborator assigns to manuscript p
DoiOf(p) == <<"doi", p>>

\* the reviewer applications the collaborator holds
AppList == <<"ap1">>

\* how many requests of the dashboard and the forms may be in flight at once
MaxReqs == 2

\* how many asynchronous session calls may be awaiting a response at once
MaxCalls == 2

(***************************************************************************)
(* State                                                                   *)
(***************************************************************************)
VARIABLES
  token,        \* localStorage 'token'
  user,         \* AuthProvider.user
  loading,      \* AuthProvider.loading
  mounted,      \* the AuthProvider startup effect has run
  calls,        \* bag of session calls awaiting their response
  route,        \* the current location of BrowserRouter
  loginLoading, \* Login.loading of the mounted login form
  loginMessage, \* Login.message of the mounted login form
  isLogin,      \* Login.isLogin of the mounted login form
  status,       \* collaborator: the status of each manuscript
  doi,          \* collaborator: the doi of each manuscript
  papersView,   \* AdminDashboard.papers: ids of the manuscripts shown
  applications, \* AdminDashboard.applications
  adminLoading, \* AdminDashboard.loading
  wordCount,    \* SubmitPaper.formData.word_count: the characters of the field
  submitLoading,\* SubmitPaper.loading
  submitMessage,\* SubmitPaper.message
  filters,      \* Papers.filters
  publicView,   \* Papers.papers: ids of the manuscripts shown
  papersLoading,\* Papers.loading
  letter,       \* ApplyAdmin.formData.motivation_letter
  applyLoading, \* ApplyAdmin.loading
  applyMessage, \* ApplyAdmin.message
  appRecords,   \* collaborator: how many ReviewerApplication records were created
  reqs,         \* bag of dashboard and form requests in flight, and armed timers
  userVia,      \* history: the token whose validation returned `user`
  lastOp,       \* history: the handler that ran last
  timeZone,     \* the browser's time zone: hours ahead of UTC
  manuscript,   \* the paper handed to Papers.generateCitation
  citationText  \* what generateCitation returned for it

sessionVars == <<token, user, loading, mounted, calls, loginLoading,
                 loginMessage, isLogin, userVia>>
serverVars == <<status, doi>>
adminVars == <<papersView, applications, adminLoading>>
formVars == <<wordCount, submitLoading, submitMessage>>
papersVars == <<filters, publicView, papersLoading>>
applyVars == <<letter, applyLoading, applyMessage>>
citeVars == <<timeZone, manuscript, citationText>>
vars == <<token, user, loading, mounted, calls, route, loginLoading,
          loginMessage, isLogin, status, doi, papersView, applications,
          adminLoading, wordCount, submitLoading, submitMessage, filters,
          publicView, papersLoading, letter, applyLoading, applyMessage,
          appRecords, reqs, userVia, lastOp, timeZone, manuscript,
          citationText>>

\* a pending call of fetchCurrentUser(tok), made by the startup effect or by login
MeCall(op, tok, live) == [op |-> op, at |-> "me", tok |-> tok, live |-> live]

\* a pending POST /token of login(), made by a login form that is mounted (live) or not
TokenCall(live) == [op |-> "login", at |-> "token", tok |-> NoToken, live |-> live]

\* no paper is being cited, and the text shown for it
NoManuscript == [title |-> ""]
NoCitation == ""

\* what parseInt returns for a text that does not start with a number
NaN == [nan |-> TRUE, n |-> 0]

\* a motivation letter: whether the text is empty, and how many words it has
NoLetter == [empty |-> TRUE, words |-> 0]

\* a request of the dashboard just sent: its kind, the manuscript and action
\* (handleReview), the `papers` its handler closed over, and the bearer token;
\* live: its sender is mounted; page: the page load that sent it is still there;
\* wc, letter and q are what the forms and the catalog view send
Req(kind, id, action, snap, tok) ==
  [kind |-> kind, id |-> id, action |-> action, snap |-> snap, tok |-> tok,
   wc |-> NaN, letter |-> NoLetter, q |-> {},
   live |-> TRUE, page |-> TRUE, resp |-> "sent", data |-> <<>>]

\* GET /papers?params of Papers.fetchPapers, q the query parameters it appended
PapersReq(q) == [Req("papers", 0, "none", <<>>, NoToken) EXCEPT !.q = q]

\* POST /apply-admin of ApplyAdmin.handleSubmit with the motivation letter l
ApplyReq(l) == [Req("apply", 0, "none", <<>>, NoToken) EXCEPT !.letter = l]

\* POST /submit-paper just sent by handleSubmit, with the word_count it appended
SubmitReq(wc) == [Req("submit", 0, "none", <<>>, NoToken) EXCEPT !.wc = wc]

\* the setTimeout of handleSubmit, armed
Timer == [Req("timer", 0, "none", <<>>, NoToken) EXCEPT !.resp = "armed", !.live = FALSE]

\* the setTimeout of ApplyAdmin.handleSubmit, armed
ApplyTimer == [Timer EXCEPT !.kind = "applyTimer"]

\* Papers.filters with every field empty
FilterKeys == {"category", "author", "institution"}
NoFilters == [k \in FilterKeys |-> ""]

\* SubmitPaper.message: nothing, the success notice with the doi it names, or
\* the error notice with its detail
NoMessage == [kind |-> "none", doi |-> NoDoi, detail |-> "none"]

\* history: handler `op` ran; for a response, of the call made by `by` for token
\* `tok`, from a component that is still mounted (live) or not; how the call
\* settled for its caller (`res`) and with what value; for a request, the
\* manuscript `id` it names and the collaborator's answer `res`
Ran(op) ==
  [op |-> op, by |-> "none", tok |-> NoToken, live |-> FALSE, id |-> 0,
   res |-> "none", value |-> NoValue]
Handled(op, c, res, value) ==
  [op |-> op, by |-> c.op, tok |-> c.tok, live |-> c.live, id |-> 0,
   res |-> res, value |-> value]
HandledReq(op, r, res) ==
  [op |-> op, by |-> r.kind, tok |-> r.tok, live |-> r.live, id |-> r.id,
   res |-> res, value |-> NoValue]

\* one element of a bag
One(e) == SetToBag({e})

\* the components that made the pending calls or requests are unmounted: what
\* their continuations set is lost
Unmounted(B) ==
  LET dead(e) == [e EXCEPT !.live = FALSE]
      S == {dead(e) : e \in BagToSet(B)}
  IN  [e \in S |-> CopiesIn(e, B) + CopiesIn([e EXCEPT !.live = TRUE], B)]

\* the pending session calls once the location changes to r
callsAfterRoute(cs, r) ==
  IF route = "/login" /\ r # "/login" THEN Unmounted(cs) ELSE cs

\* the requests each page sends
AdminKinds == {"review", "pending", "apps"}
FormKinds == {"submit"}
PapersKinds == {"papers"}
ApplyKinds == {"apply"}

\* the elements e of bag rs that are in keep, those of the given kinds marked
\* as requests whose sender is unmounted (and, unless page, whose page is gone)
Marked(rs, keep, kinds, page) ==
  LET f(e) == IF e.kind \in kinds
                THEN [e EXCEPT !.live = FALSE, !.page = e.page /\ page, !.snap = <<>>]
                ELSE e
      S == {f(e) : e \in keep}
      n(d) == LET src == {e \in keep : f(e) = d}
                  Sum[T \in SUBSET src] ==
                    IF T = {} THEN 0
                    ELSE LET x == CHOOSE y \in T : TRUE
                         IN  CopiesIn(x, rs) + Sum[T \ {x}]
              IN  Sum[src]
  IN  [d \in S |-> n(d)]

\* the requests in flight once the senders of the given kinds are unmounted: no
\* continuation of theirs sets state any more, so of these only a decision still
\* on its way to the collaborator (without the list its handler closed over)
\* and a submission (whose continuation arms the timer) are kept
Abandoned(rs, kinds) ==
  Marked(rs, {e \in BagToSet(rs) :
                e.kind \in kinds => \/ (e.kind = "review" /\ e.resp = "sent")
                                     \/ e.kind \in {"submit", "apply"}},
         kinds, TRUE)

\* the requests in flight once the page is loaded again: no continuation runs
\* any more, only what was sent still reaches the collaborator
Orphaned(rs) ==
  Marked(rs, {e \in BagToSet(rs) :
                e.kind \in {"review", "submit", "apply"} /\ e.resp = "sent"},
         {"review", "submit", "apply"}, FALSE)

\* the requests in flight once the location changes to r
reqsAfterRoute(rs, r) ==
  Abandoned(rs, (IF route = "/admin" /\ r # "/admin" THEN AdminKinds ELSE {})
                  \cup (IF route = "/submit" /\ r # "/submit" THEN FormKinds ELSE {})
                  \cup (IF route = "/papers" /\ r # "/papers" THEN PapersKinds ELSE {})
                  \cup (IF route = "/apply-admin" /\ r # "/apply-admin"
                          THEN ApplyKinds ELSE {}))

(***************************************************************************)
(* AuthProvider                                                            *)
(***************************************************************************)

\* the state a page load starts from: only localStorage and the collaborator's
\* catalog exist
Init ==
  /\ token \in {NoToken} \cup Tokens
  /\ user = NoUser
  /\ loading = TRUE
  /\ mounted = FALSE
  /\ calls = EmptyBag
  /\ route \in SessionRoutes
  /\ loginLoading = FALSE
  /\ loginMessage = ""
  /\ isLogin = TRUE
  /\ status = [p \in PaperIds |-> "pending"]
  /\ doi = [p \in PaperIds |-> NoDoi]
  /\ papersView = <<>>
  /\ applications = <<>>
  /\ adminLoading = TRUE
  /\ wordCount = <<>>
  /\ submitLoading = FALSE
  /\ submitMessage = NoMessage
  /\ filters = NoFilters
  /\ publicView = <<>>
  /\ papersLoading = TRUE
  /\ letter = NoLetter
  /\ applyLoading = FALSE
  /\ applyMessage = NoMessage
  /\ appRecords = 0
  /\ reqs = EmptyBag
  /\ userVia = NoToken
  /\ lastOp = Ran("load")
  /\ timeZone = 0
  /\ manuscript = NoManuscript
  /\ citationText = NoCitation

\* the startup effect: restore()
restore ==
  /\ ~mounted
  /\ mounted' = TRUE
  /\ IF token # NoToken
       THEN /\ calls' = calls (+) One(MeCall("restore", token, FALSE))
            /\ loading' = loading
       ELSE /\ loading' = FALSE
            /\ calls' = calls
  /\ lastOp' = Ran("restore")
  /\ UNCHANGED <<token, user, userVia, route, loginLoading, loginMessage, isLogin>>
  /\ UNCHANGED <<citeVars, serverVars, adminVars, formVars, papersVars, applyVars, appRecords, reqs>>

\* AdminDashboard's render: the role guard, the loading notice, the console
AdminRenderAdminOnly(u, ld) ==
  IF u = NoUser \/ u.role # "admin"
    THEN "NavigateLogin"
    ELSE IF ld THEN "Loading" ELSE "Console"
AdminRender(u, ld) ==
  IF u = NoUser \/ (u.role # "admin" /\ u.role # "super_admin")
    THEN "NavigateLogin"
    ELSE IF ld THEN "Loading" ELSE "Console"

\* the location once the page at r has rendered for identity u
routeAfterRenderLoginWall(r, u) ==
  IF r = "/admin" /\ AdminRender(u, adminLoading) = "NavigateLogin" THEN "/login"
  ELSE IF r \in {"/submit", "/apply-admin"} /\ u = NoUser THEN "/login"
  ELSE r
routeAfterRender(r, u) ==
  IF r = "/admin" /\ AdminRender(u, adminLoading) = "NavigateLogin" THEN "/login" ELSE r

\* AdminDashboard's effect on [user]: fetchPendingPapers() and fetchApplications()
\* read the token from localStorage and send their requests
AdminFetches(tok) ==
  One(Req("pending", 0, "none", <<>>, tok)) (+) One(Req("apps", 0, "none", <<>>, tok))

\* Papers' effect on [filters] at mount: fetchPapers() with no filter
PapersFetch == One(PapersReq({}))

\* the pages after the location changed from route to r, with rs the requests
\* in flight; fetch says that the dashboard's effect runs. A page that stays
\* mounted keeps its state, a page that is mounted starts from its useState
\* values and runs its effects
Rendered(r, rs, tok, fetch) ==
  /\ route' = r
  /\ IF r = "/submit" /\ route = "/submit"
       THEN UNCHANGED formVars
       ELSE /\ wordCount' = <<>>
            /\ submitLoading' = FALSE
            /\ submitMessage' = NoMessage
  /\ IF r = "/apply-admin" /\ route = "/apply-admin"
       THEN UNCHANGED applyVars
       ELSE /\ letter' = NoLetter
            /\ applyLoading' = FALSE
            /\ applyMessage' = NoMessage
  /\ IF r = "/papers" /\ route = "/papers"
       THEN UNCHANGED papersVars
       ELSE /\ filters' = NoFilters
            /\ publicView' = <<>>
            /\ papersLoading' = TRUE
  /\ IF r = "/admin" /\ route = "/admin"
       THEN UNCHANGED adminVars
       ELSE /\ papersView' = <<>>
            /\ applications' = <<>>
            /\ adminLoading' = TRUE
  /\ reqs' = reqsAfterRoute(rs, r)
               (+) (IF r = "/admin" /\ (route # "/admin" \/ fetch)
                      THEN AdminFetches(tok) ELSE EmptyBag)
               (+) (IF r = "/papers" /\ route # "/papers"
                      THEN PapersFetch ELSE EmptyBag)
  /\ appRecords' = appRecords

\* what logout() does to the session
logoutNoClear(tok, usr) == [token |-> NoToken, user |-> usr]
logout(tok, usr) == [token |-> NoToken, user |-> NoUser]

\* Header.handleLogout: logout(), then navigate('/')
Logout ==
  /\ mounted
  /\ user # NoUser
  /\ token' = logout(token, user).token
  /\ user' = logout(token, user).user
  /\ userVia' = NoToken
  /\ calls' = callsAfterRoute(calls, "/")
  /\ loginLoading' = FALSE
  /\ loginMessage' = ""
  /\ isLogin' = TRUE
  /\ Rendered("/", reqs, NoToken, FALSE)
  /\ lastOp' = Ran("logout")
  /\ UNCHANGED <<citeVars, loading, mounted, serverVars>>

\* Login.handleSubmit with isLogin: login(email, password) sends POST /token
LoginSubmit ==
  /\ mounted
  /\ route = "/login"
  /\ isLogin
  /\ ~loginLoading
  /\ BagCardinality(calls) < MaxCalls
  /\ loginLoading' = TRUE
  /\ loginMessage' = ""
  /\ calls' = calls (+) One(TokenCall(TRUE))
  /\ lastOp' = Ran("login")
  /\ UNCHANGED <<citeVars, token, user, loading, mounted, route, userVia, isLogin>>
  /\ UNCHANGED <<citeVars, serverVars, adminVars, formVars, papersVars, applyVars, appRecords, reqs>>

\* POST /token fails: bad credentials or transport; login() rejects and
\* Login.handleSubmit shows the error
TokenRejectedSwallowed(c) ==
  /\ BagIn(c, calls) /\ c.at = "token"
  /\ calls' = calls (-) One(c)
  /\ loginMessage' = loginMessage
  /\ loginLoading' = IF c.live THEN FALSE ELSE loginLoading
  /\ lastOp' = Handled("tokenRejected", c, "resolved", NoValue)
  /\ UNCHANGED <<citeVars, token, user, loading, mounted, userVia, route, isLogin>>
  /\ UNCHANGED <<citeVars, serverVars, adminVars, formVars, papersVars, applyVars, appRecords, reqs>>
TokenRejected(c) ==
  /\ BagIn(c, calls) /\ c.at = "token"
  /\ calls' = calls (-) One(c)
  /\ loginMessage' = IF c.live THEN "Error" ELSE loginMessage
  /\ loginLoading' = IF c.live THEN FALSE ELSE loginLoading
  /\ lastOp' = Handled("tokenRejected", c, "rejected", NoValue)
  /\ UNCHANGED <<citeVars, token, user, loading, mounted, userVia, route, isLogin>>
  /\ UNCHANGED <<citeVars, serverVars, adminVars, formVars, papersVars, applyVars, appRecords, reqs>>

\* POST /token answers {access_token: t}: login() stores it and calls fetchCurrentUser(t)
TokenIssued(c, t) ==
  /\ BagIn(c, calls) /\ c.at = "token"
  /\ token' = t
  /\ calls' = (calls (-) One(c)) (+) One(MeCall("login", t, c.live))
  /\ lastOp' = Handled("tokenIssued", c, "none", NoValue)
  /\ UNCHANGED <<citeVars, user, loading, mounted, route, loginLoading, loginMessage, isLogin,
                 userVia>>
  /\ UNCHANGED <<citeVars, serverVars, adminVars, formVars, papersVars, applyVars, appRecords, reqs>>

\* the value login() resolves with: response.data of POST /token
loginReturn(t) == [access_token |-> t]

\* how the caller of fetchCurrentUser(c.tok) settles: login() returns
\* response.data, the startup effect returns nothing
Settled(op, c) ==
  IF c.op = "login"
    THEN Handled(op, c, "resolved", loginReturn(c.tok))
    ELSE Handled(op, c, "none", NoValue)

\* what follows fetchCurrentUser(c.tok) in its caller, the identity being u:
\* after login() Login.handleSubmit navigates to '/'; restore() is over
AfterFetch(c, u, changed) ==
  LET r == routeAfterRender(IF c.op = "login" THEN "/" ELSE route, u)
  IN  /\ calls' = callsAfterRoute(calls (-) One(c), r)
      /\ loginLoading' = IF r = route THEN loginLoading ELSE FALSE
      /\ loginMessage' = IF r = route THEN loginMessage ELSE ""
      /\ isLogin' = IF r = route THEN isLogin ELSE TRUE
      /\ Rendered(r, reqs, token', changed)

\* fetchCurrentUser(c.tok): GET /current_user answers with the Identity
MeOk(c) ==
  /\ BagIn(c, calls) /\ c.at = "me"
  /\ (route = "/admin" /\ c.op = "restore" /\ IsAdmin(IdentityOf(c.tok)))
       => BagCardinality(reqs) + 2 <= MaxReqs
  /\ user' = IdentityOf(c.tok)
  /\ userVia' = c.tok
  /\ token' = token
  /\ loading' = FALSE
  /\ AfterFetch(c, IdentityOf(c.tok), TRUE)
  /\ lastOp' = Settled("meOk", c)
  /\ UNCHANGED <<citeVars, mounted, serverVars>>

\* fetchCurrentUser(c.tok): GET /current_user fails
MeFailKeepToken(c) ==
  /\ BagIn(c, calls) /\ c.at = "me"
  /\ token' = token
  /\ user' = user
  /\ userVia' = userVia
  /\ loading' = FALSE
  /\ AfterFetch(c, user, FALSE)
  /\ lastOp' = Settled("meFail", c)
  /\ UNCHANGED <<citeVars, mounted, serverVars>>
MeFailStillLoading(c) ==
  /\ BagIn(c, calls) /\ c.at = "me"
  /\ token' = NoToken
  /\ user' = user
  /\ userVia' = userVia
  /\ loading' = loading
  /\ AfterFetch(c, user, FALSE)
  /\ lastOp' = Settled("meFail", c)
  /\ UNCHANGED <<citeVars, mounted, serverVars>>
MeFail(c) ==
  /\ BagIn(c, calls) /\ c.at = "me"
  /\ token' = NoToken
  /\ user' = user
  /\ userVia' = userVia
  /\ loading' = FALSE
  /\ AfterFetch(c, user, FALSE)
  /\ lastOp' = Settled("meFail", c)
  /\ UNCHANGED <<citeVars, mounted, serverVars>>

\* a Link of the Header, or the browser's history: the location becomes r; the
\* admin console sends a caller without the admin role on to the login form
Navigate(r) ==
  LET r2 == routeAfterRender(r, user)
  IN  /\ mounted
      /\ r # route
      /\ r2 = "/admin" => BagCardinality(reqs) + 2 <= MaxReqs
      /\ r2 = "/papers" => BagCardinality(reqs) + 1 <= MaxReqs
      /\ calls' = callsAfterRoute(calls, r)
      /\ loginLoading' = FALSE
      /\ loginMessage' = ""
      /\ isLogin' = TRUE
      /\ Rendered(r2, reqs, token, TRUE)
      /\ lastOp' = Ran(IF r = "/admin"
                         THEN IF r2 = r THEN "adminOpened" ELSE "adminDenied"
                         ELSE "navigate")
      /\ UNCHANGED <<citeVars, token, user, loading, mounted, userVia, serverVars>>

\* the page is loaded again: memory and pending callbacks are gone, localStorage
\* stays; loaded on the admin console it renders with no identity yet
Reload ==
  /\ mounted
  /\ user' = NoUser
  /\ loading' = TRUE
  /\ mounted' = FALSE
  /\ calls' = EmptyBag
  /\ loginLoading' = FALSE
  /\ loginMessage' = ""
  /\ isLogin' = TRUE
  /\ userVia' = NoToken
  /\ route' = routeAfterRender(route, NoUser)
  /\ papersView' = <<>>
  /\ applications' = <<>>
  /\ adminLoading' = TRUE
  /\ wordCount' = <<>>
  /\ submitLoading' = FALSE
  /\ submitMessage' = NoMessage
  /\ filters' = NoFilters
  /\ publicView' = <<>>
  /\ papersLoading' = TRUE
  /\ letter' = NoLetter
  /\ applyLoading' = FALSE
  /\ applyMessage' = NoMessage
  /\ appRecords' = appRecords
  /\ reqs' = Orphaned(reqs) (+) (IF route = "/papers" THEN PapersFetch ELSE EmptyBag)
  /\ lastOp' = Ran("load")
  /\ UNCHANGED <<citeVars, token, serverVars>>

\* a pending POST /register of register(), made by Login.handleSubmit
RegisterCall(live) == [op |-> "register", at |-> "register", tok |-> NoToken, live |-> live]

\* the buttons "Iniciar Sesión" / "Registrarse" of the login form: setIsLogin(b)
ToggleForm(b) ==
  /\ mounted
  /\ route = "/login"
  /\ isLogin # b
  /\ isLogin' = b
  /\ lastOp' = Ran("toggle")
  /\ UNCHANGED <<citeVars, token, user, loading, mounted, calls, route, loginLoading,
                 loginMessage, userVia>>
  /\ UNCHANGED <<citeVars, serverVars, adminVars, formVars, papersVars, applyVars, appRecords, reqs>>

\* Login.handleSubmit without isLogin: register(formData) sends POST /register
RegisterSubmit ==
  /\ mounted
  /\ route = "/login"
  /\ ~isLogin
  /\ ~loginLoading
  /\ BagCardinality(calls) < MaxCalls
  /\ loginLoading' = TRUE
  /\ loginMessage' = ""
  /\ calls' = calls (+) One(RegisterCall(TRUE))
  /\ lastOp' = Ran("register")
  /\ UNCHANGED <<citeVars, token, user, loading, mounted, route, userVia, isLogin>>
  /\ UNCHANGED <<citeVars, serverVars, adminVars, formVars, papersVars, applyVars, appRecords, reqs>>

\* POST /register succeeds: register() resolves and Login.handleSubmit shows
\* the notice and switches the form to login
RegisterOkLogsIn(c) ==
  /\ BagIn(c, calls) /\ c.at = "register"
  /\ calls' = calls (-) One(c)
  /\ token' = "tS"
  /\ loginMessage' = IF c.live THEN "Registered" ELSE loginMessage
  /\ isLogin' = IF c.live THEN TRUE ELSE isLogin
  /\ loginLoading' = IF c.live THEN FALSE ELSE loginLoading
  /\ lastOp' = Handled("registerOk", c, "resolved", NoValue)
  /\ UNCHANGED <<citeVars, user, loading, mounted, userVia, route>>
  /\ UNCHANGED <<citeVars, serverVars, adminVars, formVars, papersVars, applyVars, appRecords, reqs>>
RegisterOk(c) ==
  /\ BagIn(c, calls) /\ c.at = "register"
  /\ calls' = calls (-) One(c)
  /\ loginMessage' = IF c.live THEN "Registered" ELSE loginMessage
  /\ isLogin' = IF c.live THEN TRUE ELSE isLogin
  /\ loginLoading' = IF c.live THEN FALSE ELSE loginLoading
  /\ lastOp' = Handled("registerOk", c, "resolved", NoValue)
  /\ UNCHANGED <<citeVars, token, user, loading, mounted, userVia, route>>
  /\ UNCHANGED <<citeVars, serverVars, adminVars, formVars, papersVars, applyVars, appRecords, reqs>>

\* POST /register fails: register() rejects and Login.handleSubmit shows the error
RegisterFail(c) ==
  /\ BagIn(c, calls) /\ c.at = "register"
  /\ calls' = calls (-) One(c)
  /\ loginMessage' = IF c.live THEN "Error" ELSE loginMessage
  /\ loginLoading' = IF c.live THEN FALSE ELSE loginLoading
  /\ lastOp' = Handled("registerFailed", c, "rejected", NoValue)
  /\ UNCHANGED <<citeVars, token, user, loading, mounted, userVia, route, isLogin>>
  /\ UNCHANGED <<citeVars, serverVars, adminVars, formVars, papersVars, applyVars, appRecords, reqs>>

\* the answer to POST /register arrives
RegisterResponse ==
  \/ \E c \in BagToSet(calls) : RegisterOk(c)
  \/ \E c \in BagToSet(calls) : RegisterFail(c)

\* a response of the Identity Store arrives and its continuation runs
Response ==
  \/ \E c \in BagToSet(calls) : TokenRejected(c)
  \/ \E c \in BagToSet(calls), t \in Tokens : TokenIssued(c, t)
  \/ \E c \in BagToSet(calls) : MeOk(c)
  \/ \E c \in BagToSet(calls) : MeFail(c)

\* restore, login, register and logout with their responses, in any interleaving
Next ==
  \/ restore
  \/ LoginSubmit
  \/ \E b \in BOOLEAN : ToggleForm(b)
  \/ RegisterSubmit
  \/ RegisterResponse
  \/ Logout
  \/ Response
  \/ \E r \in SessionRoutes : Navigate(r)
  \/ Reload

Spec == Init /\ [][Next]_vars

\* restore, login and logout one after another: none starts before the last is over
\* one page load: the session operations in any interleaving, every call of
\* fetchCurrentUser made at startup being answered or failing in the end
StartupNext ==
  \/ restore
  \/ LoginSubmit
  \/ \E b \in BOOLEAN : ToggleForm(b)
  \/ RegisterSubmit
  \/ RegisterResponse
  \/ Logout
  \/ Response
  \/ \E r \in SessionRoutes : Navigate(r)

StartupSpec ==
  /\ Init
  /\ [][StartupNext]_vars
  /\ WF_vars(restore)
  /\ \A t \in Tokens :
       WF_vars(MeOk(MeCall("restore", t, FALSE)) \/ MeFail(MeCall("restore", t, FALSE)))

SeqNext ==
  \/ (calls = EmptyBag /\ restore)
  \/ (calls = EmptyBag /\ LoginSubmit)
  \/ (calls = EmptyBag /\ \E b \in BOOLEAN : ToggleForm(b))
  \/ (calls = EmptyBag /\ RegisterSubmit)
  \/ RegisterResponse
  \/ (calls = EmptyBag /\ Logout)
  \/ Response
  \/ (calls = EmptyBag /\ \E r \in SessionRoutes : Navigate(r))
  \/ (calls = EmptyBag /\ Reload)

SeqSpec == Init /\ [][SeqNext]_vars

(***************************************************************************)
(* The collaborator: review decisions and the admin lists                  *)
(***************************************************************************)

\* the ids of the pending manuscripts, in the collaborator's order
PendingSeq(st) ==
  LET F[n \in 0..MaxPapers] ==
        IF n = 0 THEN <<>>
        ELSE IF st[n] = "pending" THEN Append(F[n-1], n) ELSE F[n-1]
  IN  F[MaxPapers]

\* the answer to request r on its way to the dashboard: "ok" with the data, or
\* "fail" (the dashboard's handlers treat every failure alike); what the
\* continuation no longer reads of the request is dropped
Answer(r, resp, data) ==
  [r EXCEPT !.resp = resp, !.data = data, !.action = "none", !.tok = NoToken,
            !.wc = NaN, !.letter = NoLetter]

\* POST /review/{id}: what the collaborator answers to a decision on a
\* manuscript in status st made with bearer token tok
decideAnswerAlwaysOk(tok, st) == "ok"
decideAnswer(tok, st) ==
  IF ~IsAdminToken(tok) THEN "AuthorizationError"
  ELSE IF st # "pending" THEN "InvalidStateTransition"
  ELSE "ok"

\* POST /review/{id} reaches the collaborator
ServerReview(r) ==
  LET res == decideAnswer(r.tok, status[r.id])
  IN  /\ BagIn(r, reqs) /\ r.kind = "review" /\ r.resp = "sent"
      /\ IF res = "ok"
           THEN /\ status' = [status EXCEPT ![r.id] = r.action]
                /\ doi' = [doi EXCEPT ![r.id] =
                             IF r.action = "approved" THEN DoiOf(r.id) ELSE NoDoi]
                /\ reqs' = (reqs (-) One(r)) (+) One(Answer(r, "ok", <<>>))
           ELSE /\ UNCHANGED serverVars
                /\ reqs' = (reqs (-) One(r)) (+) One(Answer(r, "fail", <<>>))
      /\ lastOp' = HandledReq("serverReview", r, res)
      /\ UNCHANGED <<citeVars, sessionVars, route, formVars, papersVars, applyVars, appRecords, adminVars>>

\* GET /papers?status=pending and GET /admin/applications reach the collaborator
ServerList(r) ==
  /\ BagIn(r, reqs) /\ r.kind \in {"pending", "apps"} /\ r.resp = "sent"
  /\ reqs' = (reqs (-) One(r)) (+) One(
       IF IsAdminToken(r.tok)
         THEN Answer(r, "ok", IF r.kind = "pending" THEN PendingSeq(status) ELSE AppList)
         ELSE Answer(r, "fail", <<>>))
  /\ lastOp' = HandledReq("serverList", r,
                          IF IsAdminToken(r.tok) THEN "ok" ELSE "AuthorizationError")
  /\ UNCHANGED <<citeVars, sessionVars, route, formVars, papersVars, applyVars, appRecords, adminVars, serverVars>>

\* the transport loses the request, or the answer on its way back
TransportFail(r) ==
  /\ BagIn(r, reqs) /\ r.kind # "timer" /\ r.resp \in {"sent", "ok"}
  /\ reqs' = (reqs (-) One(r)) (+) One(Answer(r, "fail", <<>>))
  /\ lastOp' = HandledReq("transportFail", r, "NetworkError")
  /\ UNCHANGED <<citeVars, sessionVars, route, formVars, papersVars, applyVars, appRecords, adminVars, serverVars>>

(***************************************************************************)
(* AdminDashboard                                                          *)
(***************************************************************************)

\* the manuscripts ps without manuscript id
WithoutPaper(ps, id) == SelectSeq(ps, LAMBDA x : x # id)

\* handleReview(id, action), from a button of the console: sends POST /review/{id}
ReviewClick(id, action) ==
  /\ mounted
  /\ route = "/admin"
  /\ AdminRender(user, adminLoading) = "Console"
  /\ \E i \in 1..Len(papersView) : papersView[i] = id
  /\ BagCardinality(reqs) < MaxReqs
  /\ reqs' = reqs (+) One(Req("review", id, action, papersView, token))
  /\ lastOp' = [Ran("review") EXCEPT !.id = id, !.tok = token]
  /\ UNCHANGED <<citeVars, sessionVars, route, formVars, papersVars, applyVars, appRecords, adminVars, serverVars>>

\* the continuation of handleReview after its await: `papers` is the list its
\* render closed over
ReviewDoneRemovesOnFailure(r) ==
  /\ BagIn(r, reqs) /\ r.kind = "review" /\ r.resp # "sent"
  /\ reqs' = reqs (-) One(r)
  /\ papersView' = IF r.live THEN WithoutPaper(r.snap, r.id) ELSE papersView
  /\ lastOp' = HandledReq("reviewDone", r, r.resp)
  /\ UNCHANGED <<citeVars, sessionVars, route, formVars, papersVars, applyVars, appRecords,
                 applications, adminLoading, serverVars>>
ReviewDone(r) ==
  /\ BagIn(r, reqs) /\ r.kind = "review" /\ r.resp # "sent"
  /\ reqs' = reqs (-) One(r)
  /\ papersView' = IF r.live /\ r.resp = "ok"
                     THEN WithoutPaper(r.snap, r.id)
                     ELSE papersView
  /\ lastOp' = HandledReq("reviewDone", r, r.resp)
  /\ UNCHANGED <<citeVars, sessionVars, route, formVars, papersVars, applyVars, appRecords,
                 applications, adminLoading, serverVars>>

\* the continuation of fetchPendingPapers after its await
PendingDone(r) ==
  /\ BagIn(r, reqs) /\ r.kind = "pending" /\ r.resp # "sent"
  /\ reqs' = reqs (-) One(r)
  /\ papersView' = IF r.live /\ r.resp = "ok" THEN r.data ELSE papersView
  /\ lastOp' = HandledReq("pendingDone", r, r.resp)
  /\ UNCHANGED <<citeVars, sessionVars, route, formVars, papersVars, applyVars, appRecords,
                 applications, adminLoading, serverVars>>

\* the continuation of fetchApplications after its await
AppsDone(r) ==
  /\ BagIn(r, reqs) /\ r.kind = "apps" /\ r.resp # "sent"
  /\ reqs' = reqs (-) One(r)
  /\ applications' = IF r.live /\ r.resp = "ok" THEN r.data ELSE applications
  /\ adminLoading' = IF r.live THEN FALSE ELSE adminLoading
  /\ lastOp' = HandledReq("appsDone", r, r.resp)
  /\ UNCHANGED <<citeVars, sessionVars, route, formVars, papersVars, applyVars, appRecords, papersView, serverVars>>

\* the collaborator and the transport act on a request in flight
Collaborator ==
  \/ \E r \in BagToSet(reqs) : ServerReview(r)
  \/ \E r \in BagToSet(reqs) : ServerList(r)
  \/ \E r \in BagToSet(reqs) : TransportFail(r)

\* an answer arrives at the dashboard
AdminResponse ==
  \/ \E r \in BagToSet(reqs) : ReviewDone(r)
  \/ \E r \in BagToSet(reqs) : PendingDone(r)
  \/ \E r \in BagToSet(reqs) : AppsDone(r)

AdminRoutes == SessionRoutes \cup {"/admin"}

\* one page load: the admin console against the collaborator, with its requests
\* in any interleaving, while the session changes by one call at a time
AdminNext ==
  \/ restore
  \/ (calls = EmptyBag /\ LoginSubmit)
  \/ Logout
  \/ Response
  \/ \E r \in AdminRoutes : Navigate(r)
  \/ \E id \in PaperIds, action \in {"approved", "rejected"} : ReviewClick(id, action)
  \/ Collaborator
  \/ AdminResponse

AdminSpec == Init /\ [][AdminNext]_vars

\* the answer to the startup effect's GET /current_user arrives
RestoreResponse ==
  \/ \E c \in BagToSet(calls) : MeOk(c)
  \/ \E c \in BagToSet(calls) : MeFail(c)

\* one page load: restore(), then the admin console is opened and stays open, its
\* requests against the collaborator in any interleaving
ReviewNext ==
  \/ restore
  \/ RestoreResponse
  \/ Navigate("/admin")
  \/ \E id \in PaperIds, action \in {"approved", "rejected"} : ReviewClick(id, action)
  \/ Collaborator
  \/ AdminResponse

ReviewSpec == Init /\ [][ReviewNext]_vars

(***************************************************************************)
(* SubmitPaper                                                             *)
(***************************************************************************)

\* the texts typed into the word_count field
WordCounts ==
  { <<>>,
    <<"1", "9", "9", "9">>,
    <<"2", "0", "0", "0">>,
    <<"8", "0", "0", "0">>,
    <<"8", "0", "0", "1">>,
    <<"2", "5", "0", "0", ".", "5">>,
    <<"3", "e", "3">> }

Digits == <<"0", "1", "2", "3", "4", "5", "6", "7", "8", "9">>
IsDigit(ch) == \E d \in 1..10 : Digits[d] = ch
DigitValue(ch) == (CHOOSE d \in 1..10 : Digits[d] = ch) - 1

\* the first position from i on where text s has no digit
RECURSIVE DigitsEnd(_, _)
DigitsEnd(s, i) ==
  IF i <= Len(s) /\ IsDigit(s[i]) THEN DigitsEnd(s, i + 1) ELSE i

\* the number written by the digits of s at positions i..j-1
RECURSIVE DigitsValue(_, _, _)
DigitsValue(s, i, j) ==
  IF j <= i THEN 0 ELSE DigitsValue(s, i, j - 1) * 10 + DigitValue(s[j - 1])

RECURSIVE Pow10(_)
Pow10(n) == IF n = 0 THEN 1 ELSE 10 * Pow10(n - 1)

\* parseInt(s): an optional sign and the leading digits; what follows is ignored
parseInt(s) ==
  LET neg == Len(s) >= 1 /\ s[1] = "-"
      i0 == IF Len(s) >= 1 /\ s[1] \in {"+", "-"} THEN 2 ELSE 1
      j == DigitsEnd(s, i0)
  IN  IF j = i0
        THEN NaN
        ELSE [nan |-> FALSE, n |-> (IF neg THEN -1 ELSE 1) * DigitsValue(s, i0, j)]

\* the number an <input type="number"> reads in its text, as the fraction
\* num/den: an optional "-", digits, an optional fraction, an optional exponent
valueAsNumber(s) ==
  LET neg == Len(s) >= 1 /\ s[1] = "-"
      i0 == IF neg THEN 2 ELSE 1
      a == DigitsEnd(s, i0)
      hasFrac == a <= Len(s) /\ s[a] = "."
      b == IF hasFrac THEN DigitsEnd(s, a + 1) ELSE a
      fracLen == IF hasFrac THEN b - a - 1 ELSE 0
      hasExp == b <= Len(s) /\ s[b] \in {"e", "E"}
      eneg == hasExp /\ b + 1 <= Len(s) /\ s[b + 1] = "-"
      e0 == IF hasExp /\ b + 1 <= Len(s) /\ s[b + 1] \in {"+", "-"} THEN b + 2 ELSE b + 1
      c == IF hasExp THEN DigitsEnd(s, e0) ELSE b
      exp == IF hasExp THEN DigitsValue(s, e0, c) ELSE 0
      mant == DigitsValue(s, i0, a) * Pow10(fracLen)
                + (IF hasFrac THEN DigitsValue(s, a + 1, b) ELSE 0)
      ok == /\ (a > i0 \/ hasFrac)
            /\ (hasFrac => fracLen >= 1)
            /\ (hasExp => c > e0)
            /\ c = Len(s) + 1
  IN  IF ~ok
        THEN [ok |-> FALSE, num |-> 0, den |-> 1]
        ELSE [ok |-> TRUE,
              num |-> (IF neg THEN -1 ELSE 1) * mant * (IF eneg THEN 1 ELSE Pow10(exp)),
              den |-> Pow10(fracLen) * (IF eneg THEN Pow10(exp) ELSE 1)]

\* the browser's constraint validation of the word_count field (type="number"
\* min="2000" max="8000" required, step 1 from min); the other required fields
\* of the form are filled in
wordCountValid(s) ==
  LET v == valueAsNumber(s)
  IN  /\ s # <<>>
      /\ v.ok
      /\ v.num >= 2000 * v.den
      /\ v.num <= 8000 * v.den
      /\ (v.num - 2000 * v.den) % v.den = 0

\* handleChange on the word_count field
TypeWordCount(v) ==
  /\ mounted
  /\ route = "/submit"
  /\ v # wordCount
  /\ wordCount' = v
  /\ lastOp' = Ran("change")
  /\ UNCHANGED <<citeVars, sessionVars, route, serverVars, adminVars, papersVars, applyVars,
                 appRecords, submitLoading,
                 submitMessage, reqs>>

\* the button "Enviar Paper": the browser validates the form and, if it is
\* valid, fires onSubmit; handleSubmit sends POST /submit-paper
SubmitClickNeverDisabled ==
  /\ mounted
  /\ route = "/submit"
  /\ wordCountValid(wordCount) => BagCardinality(reqs) < MaxReqs
  /\ IF wordCountValid(wordCount)
       THEN /\ submitLoading' = TRUE
            /\ submitMessage' = NoMessage
            /\ reqs' = reqs (+) One(SubmitReq(parseInt(wordCount)))
            /\ lastOp' = Ran("submit")
       ELSE /\ UNCHANGED <<submitLoading, submitMessage, reqs>>
            /\ lastOp' = Ran("submitBlocked")
  /\ UNCHANGED <<citeVars, sessionVars, route, serverVars, adminVars, papersVars, applyVars, appRecords, wordCount>>
SubmitClick ==
  /\ mounted
  /\ route = "/submit"
  /\ ~submitLoading
  /\ wordCountValid(wordCount) => BagCardinality(reqs) < MaxReqs
  /\ IF wordCountValid(wordCount)
       THEN /\ submitLoading' = TRUE
            /\ submitMessage' = NoMessage
            /\ reqs' = reqs (+) One(SubmitReq(parseInt(wordCount)))
            /\ lastOp' = Ran("submit")
       ELSE /\ UNCHANGED <<submitLoading, submitMessage, reqs>>
            /\ lastOp' = Ran("submitBlocked")
  /\ UNCHANGED <<citeVars, sessionVars, route, serverVars, adminVars, papersVars, applyVars, appRecords, wordCount>>

\* the word_count a Manuscript may be created with
InRange(wc) == ~wc.nan /\ wc.n >= 2000 /\ wc.n <= 8000

\* POST /submit-paper reaches the collaborator: it validates word_count and
\* creates the Manuscript, pending and without a doi; its answer is {doi},
\* with the doi the manuscript is to carry or with none
ServerSubmit(r) ==
  LET free == {p \in PaperIds : status[p] = "absent"}
      p == CHOOSE q \in free : \A q2 \in free : q <= q2
  IN  /\ BagIn(r, reqs) /\ r.kind = "submit" /\ r.resp = "sent"
      /\ InRange(r.wc) => free # {}
      /\ IF InRange(r.wc)
           THEN /\ status' = [status EXCEPT ![p] = "pending"]
                /\ doi' = [doi EXCEPT ![p] = NoDoi]
                /\ \E d \in {NoDoi, DoiOf(p)} :
                     reqs' = (reqs (-) One(r)) (+) One(Answer(r, "ok", <<d>>))
                /\ lastOp' = [HandledReq("serverSubmit", r, "ok") EXCEPT !.id = p]
           ELSE /\ UNCHANGED serverVars
                /\ reqs' = (reqs (-) One(r)) (+) One(Answer(r, "fail", <<"ValidationError">>))
                /\ lastOp' = HandledReq("serverSubmit", r, "ValidationError")
      /\ UNCHANGED <<citeVars, sessionVars, route, formVars, papersVars, applyVars, appRecords, adminVars>>

\* the continuation of handleSubmit after its await
SubmitDoneRetry(r) ==
  /\ BagIn(r, reqs) /\ r.kind = "submit" /\ r.resp # "sent"
  /\ reqs' = (reqs (-) One(r))
               (+) (IF r.resp = "ok"
                      THEN (IF r.page THEN One(Timer) ELSE EmptyBag)
                      ELSE One(SubmitReq(parseInt(wordCount))))
  /\ IF r.live
       THEN /\ submitLoading' = (r.resp # "ok")
            /\ submitMessage' =
                 IF r.resp = "ok"
                   THEN [kind |-> "success", doi |-> r.data[1], detail |-> "none"]
                   ELSE NoMessage
       ELSE UNCHANGED <<submitLoading, submitMessage>>
  /\ lastOp' = HandledReq("submitDone", r, r.resp)
  /\ UNCHANGED <<citeVars, sessionVars, route, serverVars, adminVars, papersVars, applyVars,
                 appRecords, wordCount>>
SubmitDone(r) ==
  /\ BagIn(r, reqs) /\ r.kind = "submit" /\ r.resp # "sent"
  /\ reqs' = (reqs (-) One(r))
               (+) (IF r.page /\ r.resp = "ok" THEN One(Timer) ELSE EmptyBag)
  /\ IF r.live
       THEN /\ submitLoading' = FALSE
            /\ submitMessage' =
                 IF r.resp = "ok"
                   THEN [kind |-> "success", doi |-> r.data[1], detail |-> "none"]
                   ELSE [kind |-> "error", doi |-> NoDoi,
                         detail |-> IF Len(r.data) = 0 THEN "NetworkError" ELSE r.data[1]]
       ELSE UNCHANGED <<submitLoading, submitMessage>>
  /\ lastOp' = HandledReq("submitDone", r, r.resp)
  /\ UNCHANGED <<citeVars, sessionVars, route, serverVars, adminVars, papersVars, applyVars, appRecords, wordCount>>

\* the timer of handleSubmit fires: navigate('/papers')
TimerFire ==
  /\ BagIn(Timer, reqs)
  /\ calls' = callsAfterRoute(calls, "/papers")
  /\ loginLoading' = FALSE
  /\ loginMessage' = ""
  /\ isLogin' = TRUE
  /\ Rendered("/papers", reqs (-) One(Timer), token, FALSE)
  /\ lastOp' = Ran("timer")
  /\ UNCHANGED <<citeVars, token, user, loading, mounted, userVia, serverVars>>

\* a page load on the submission form, the catalog empty
SubmitInit ==
  /\ token \in {NoToken} \cup Tokens
  /\ user = NoUser
  /\ loading = TRUE
  /\ mounted = FALSE
  /\ calls = EmptyBag
  /\ route = "/submit"
  /\ loginLoading = FALSE
  /\ loginMessage = ""
  /\ isLogin = TRUE
  /\ status = [p \in PaperIds |-> "absent"]
  /\ doi = [p \in PaperIds |-> NoDoi]
  /\ papersView = <<>>
  /\ applications = <<>>
  /\ adminLoading = TRUE
  /\ wordCount = <<>>
  /\ submitLoading = FALSE
  /\ submitMessage = NoMessage
  /\ filters = NoFilters
  /\ publicView = <<>>
  /\ papersLoading = TRUE
  /\ letter = NoLetter
  /\ applyLoading = FALSE
  /\ applyMessage = NoMessage
  /\ appRecords = 0
  /\ reqs = EmptyBag
  /\ userVia = NoToken
  /\ lastOp = Ran("load")
  /\ timeZone = 0
  /\ manuscript = NoManuscript
  /\ citationText = NoCitation

\* the collaborator and the transport act on a submission in flight
SubmitCollaborator ==
  \/ \E r \in BagToSet(reqs) : ServerSubmit(r)
  \/ \E r \in BagToSet(reqs) : r.kind = "submit" /\ TransportFail(r)

\* one page load: the submission form against the collaborator; the visitor
\* may leave the form and come back while a submission is in flight
SubmitNext ==
  \/ restore
  \/ RestoreResponse
  \/ \E v \in WordCounts : TypeWordCount(v)
  \/ SubmitClick
  \/ SubmitCollaborator
  \/ \E r \in BagToSet(reqs) : SubmitDone(r)
  \/ TimerFire
  \/ Navigate("/submit")
  \/ Navigate("/")

SubmitSpec == SubmitInit /\ [][SubmitNext]_vars

(***************************************************************************)
(* Papers: the public catalog view                                         *)
(***************************************************************************)

\* what the collaborator's catalog holds of manuscript p in field k
Attr(p, k) ==
  CASE k = "category" -> "fisica"
    [] k = "author" -> (IF p = 1 THEN "ana" ELSE "luis")
    [] k = "institution" -> (IF p = 1 THEN "uch" ELSE "usach")

\* the texts typed into the filter field k
FilterValues(k) ==
  CASE k = "category" -> {"", "fisica"}
    [] k = "author" -> {"", "ana"}
    [] k = "institution" -> {"", "usach"}

\* fetchPapers: the URLSearchParams built from filters f; every field is appended
QueryAllFields(f) == {<<k, f[k]>> : k \in FilterKeys}
\* fetchPapers: the URLSearchParams built from filters f
Query(f) == {<<k, f[k]>> : k \in {x \in FilterKeys : f[x] # ""}}

\* the published manuscripts that match every parameter of query q, in the
\* collaborator's order
PublishedSeqAnyStatus(st, q) ==
  LET F[n \in 0..MaxPapers] ==
        IF n = 0 THEN <<>>
        ELSE IF st[n] # "absent" /\ \A kv \in q : Attr(n, kv[1]) = kv[2]
               THEN Append(F[n-1], n)
               ELSE F[n-1]
  IN  F[MaxPapers]
PublishedSeq(st, q) ==
  LET F[n \in 0..MaxPapers] ==
        IF n = 0 THEN <<>>
        ELSE IF st[n] = "approved" /\ \A kv \in q : Attr(n, kv[1]) = kv[2]
               THEN Append(F[n-1], n)
               ELSE F[n-1]
  IN  F[MaxPapers]

\* handleFilterChange on field k; the effect on [filters] then runs fetchPapers()
FilterChange(k, v) ==
  /\ mounted
  /\ route = "/papers"
  /\ ~papersLoading
  /\ filters[k] # v
  /\ BagCardinality(reqs) < MaxReqs
  /\ filters' = [filters EXCEPT ![k] = v]
  /\ reqs' = reqs (+) One(PapersReq(Query(filters')))
  /\ lastOp' = Ran("filter")
  /\ UNCHANGED <<citeVars, sessionVars, route, serverVars, adminVars, formVars, applyVars,
                 appRecords, publicView, papersLoading>>

\* GET /papers?params reaches the collaborator: without a status parameter it
\* answers with the approved manuscripts that match
ServerPapers(r) ==
  /\ BagIn(r, reqs) /\ r.kind = "papers" /\ r.resp = "sent"
  /\ reqs' = (reqs (-) One(r)) (+) One(Answer(r, "ok", PublishedSeq(status, r.q)))
  /\ lastOp' = [HandledReq("serverPapers", r, "ok") EXCEPT
                  !.value = [q |-> r.q, data |-> PublishedSeq(status, r.q)]]
  /\ UNCHANGED <<citeVars, sessionVars, route, serverVars, adminVars, formVars, papersVars,
                 applyVars, appRecords>>

\* the continuation of fetchPapers after its await
PapersDone(r) ==
  /\ BagIn(r, reqs) /\ r.kind = "papers" /\ r.resp # "sent"
  /\ reqs' = reqs (-) One(r)
  /\ publicView' = IF r.live /\ r.resp = "ok" THEN r.data ELSE publicView
  /\ papersLoading' = IF r.live THEN FALSE ELSE papersLoading
  /\ lastOp' = HandledReq("papersDone", r, r.resp)
  /\ UNCHANGED <<citeVars, sessionVars, route, serverVars, adminVars, formVars, applyVars,
                 appRecords, filters>>

\* the collaborator and the transport act on a catalog query in flight
PapersCollaborator ==
  \/ \E r \in BagToSet(reqs) : ServerPapers(r)
  \/ \E r \in BagToSet(reqs) : r.kind = "papers" /\ TransportFail(r)

(***************************************************************************)
(* ApplyAdmin: the reviewer application form                               *)
(***************************************************************************)

\* the least number of words of a motivation letter
MinLetterWords == 500

\* how many ReviewerApplication records the collaborator can create
MaxApps == 2

\* the motivation letters typed into the form: no text, blanks only, a short
\* letter, a letter one word short, a letter just long enough
Letters ==
  { NoLetter,
    [empty |-> FALSE, words |-> 0],
    [empty |-> FALSE, words |-> 1],
    [empty |-> FALSE, words |-> MinLetterWords - 1],
    [empty |-> FALSE, words |-> MinLetterWords] }

\* the browser's constraint validation of the motivation_letter textarea
\* (required); the other required fields of the form are filled in
letterValid(l) == ~l.empty

\* handleChange on the motivation_letter field
TypeLetter(l) ==
  /\ mounted
  /\ route = "/apply-admin"
  /\ l # letter
  /\ letter' = l
  /\ lastOp' = Ran("change")
  /\ UNCHANGED <<citeVars, sessionVars, route, serverVars, adminVars, formVars, papersVars,
                 appRecords, applyLoading, applyMessage, reqs>>

\* the button "Enviar Solicitud": the browser validates the form and, if it is
\* valid, fires onSubmit; handleSubmit sends POST /apply-admin
ApplyClick ==
  /\ mounted
  /\ route = "/apply-admin"
  /\ ~applyLoading
  /\ letterValid(letter) => BagCardinality(reqs) < MaxReqs
  /\ IF letterValid(letter)
       THEN /\ applyLoading' = TRUE
            /\ applyMessage' = NoMessage
            /\ reqs' = reqs (+) One(ApplyReq(letter))
            /\ lastOp' = Ran("apply")
       ELSE /\ UNCHANGED <<applyLoading, applyMessage, reqs>>
            /\ lastOp' = Ran("applyBlocked")
  /\ UNCHANGED <<citeVars, sessionVars, route, serverVars, adminVars, formVars, papersVars,
                 appRecords, letter>>

\* POST /apply-admin reaches the collaborator: it creates the
\* ReviewerApplication and acknowledges
ServerApply(r) ==
  /\ BagIn(r, reqs) /\ r.kind = "apply" /\ r.resp = "sent"
  /\ appRecords < MaxApps
  /\ appRecords' = appRecords + 1
  /\ reqs' = (reqs (-) One(r)) (+) One(Answer(r, "ok", <<>>))
  /\ lastOp' = [HandledReq("serverApply", r, "ok") EXCEPT
                  !.value = [letter |-> r.letter]]
  /\ UNCHANGED <<citeVars, sessionVars, route, serverVars, adminVars, formVars, papersVars,
                 applyVars>>

\* the continuation of ApplyAdmin.handleSubmit after its await
ApplyDone(r) ==
  /\ BagIn(r, reqs) /\ r.kind = "apply" /\ r.resp # "sent"
  /\ reqs' = (reqs (-) One(r))
               (+) (IF r.page /\ r.resp = "ok" THEN One(ApplyTimer) ELSE EmptyBag)
  /\ IF r.live
       THEN /\ applyLoading' = FALSE
            /\ applyMessage' =
                 IF r.resp = "ok"
                   THEN [kind |-> "success", doi |-> NoDoi, detail |-> "none"]
                   ELSE [kind |-> "error", doi |-> NoDoi,
                         detail |-> IF Len(r.data) = 0 THEN "NetworkError" ELSE r.data[1]]
       ELSE UNCHANGED <<applyLoading, applyMessage>>
  /\ lastOp' = HandledReq("applyDone", r, r.resp)
  /\ UNCHANGED <<citeVars, sessionVars, route, serverVars, adminVars, formVars, papersVars,
                 appRecords, letter>>

\* the timer of ApplyAdmin.handleSubmit fires: navigate('/')
ApplyTimerFire ==
  /\ BagIn(ApplyTimer, reqs)
  /\ calls' = callsAfterRoute(calls, "/")
  /\ loginLoading' = FALSE
  /\ loginMessage' = ""
  /\ isLogin' = TRUE
  /\ Rendered("/", reqs (-) One(ApplyTimer), token, FALSE)
  /\ lastOp' = Ran("timer")
  /\ UNCHANGED <<citeVars, token, user, loading, mounted, userVia, serverVars>>

\* the collaborator and the transport act on an application in flight
ApplyCollaborator ==
  \/ \E r \in BagToSet(reqs) : ServerApply(r)
  \/ \E r \in BagToSet(reqs) : r.kind = "apply" /\ TransportFail(r)

(***************************************************************************)
(* Papers.generateCitation                                                 *)
(***************************************************************************)

\* the journal name written in the template of generateCitation
JournalName == "La Revista Nacional de las Ciencias para Estudiantes"

\* the hours of the calendar year y
HoursInYear(y) ==
  IF y % 4 = 0 /\ (y % 100 # 0 \/ y % 400 = 0) THEN 366 * 24 ELSE 365 * 24

\* the submission_date texts of the catalog: the year written in the text,
\* the hours from the start of that year to the moment written, and whether
\* the text names UTC ("Z": a date alone, or a date-time ending in Z) or no
\* zone at all ("local": a date-time without offset)
SubmissionDates ==
  { [year |-> y, hour |-> h, zone |-> z] :
      y \in {2023, 2024}, h \in {0, 4000, 365 * 24 - 1}, z \in {"Z", "local"} }

\* the time zones of the browsers: hours ahead of UTC
TimeZones == {0 - 4, 0, 1}

\* new Date(text).getFullYear() in a browser tz hours ahead of UTC: a text
\* that names UTC is an instant, whose local year is read; a text without a
\* zone is parsed as local time, whose year is the one written
getFullYear(d, tz) ==
  LET h == IF d.zone = "Z" THEN d.hour + tz ELSE d.hour
  IN  IF h < 0 THEN d.year - 1
      ELSE IF h >= HoursInYear(d.year) THEN d.year + 1
      ELSE d.year

\* Array.prototype.join
RECURSIVE join(_, _)
join(xs, sep) ==
  IF Len(xs) = 0 THEN ""
  ELSE IF Len(xs) = 1 THEN xs[1]
  ELSE xs[1] \o sep \o join(Tail(xs), sep)

\* the papers of the catalog that are cited
Manuscripts ==
  { [authors |-> a, submission_date |-> d, title |-> "Mareas", doi |-> "10.1/rnce.7"] :
      a \in {<<"Ana Rojas">>, <<"Ana Rojas", "Luis Soto">>, <<"Luis Soto", "Ana Rojas">>},
      d \in SubmissionDates }

\* generateCitation(paper) in a browser of time zone tz
generateCitation(paper, tz) ==
  join(paper.authors, ", ") \o ". (" \o ToString(getFullYear(paper.submission_date, tz))
    \o "). " \o paper.title \o ". " \o JournalName \o ". DOI: " \o paper.doi

\* generateCitation(paper) is called for the card of a paper
Cite ==
  /\ manuscript \in Manuscripts
  /\ citationText' = generateCitation(manuscript, timeZone)
  /\ lastOp' = Ran("cite")
  /\ UNCHANGED <<sessionVars, route, serverVars, adminVars, formVars, papersVars,
                 applyVars, appRecords, reqs, timeZone, manuscript>>

\* a page load in a browser of some time zone, with one paper to cite
CiteInit ==
  /\ token \in {NoToken} \cup Tokens
  /\ user = NoUser
  /\ loading = TRUE
  /\ mounted = FALSE
  /\ calls = EmptyBag
  /\ route = "/"
  /\ loginLoading = FALSE
  /\ loginMessage = ""
  /\ isLogin = TRUE
  /\ status = [p \in PaperIds |-> "approved"]
  /\ doi = [p \in PaperIds |-> DoiOf(p)]
  /\ papersView = <<>>
  /\ applications = <<>>
  /\ adminLoading = TRUE
  /\ wordCount = <<>>
  /\ submitLoading = FALSE
  /\ submitMessage = NoMessage
  /\ filters = NoFilters
  /\ publicView = <<>>
  /\ papersLoading = TRUE
  /\ letter = NoLetter
  /\ applyLoading = FALSE
  /\ applyMessage = NoMessage
  /\ appRecords = 0
  /\ reqs = EmptyBag
  /\ userVia = NoToken
  /\ lastOp = Ran("load")
  /\ timeZone \in TimeZones
  /\ manuscript \in Manuscripts
  /\ citationText = NoCitation

CiteNext ==
  \/ Cite
  \/ restore
  \/ RestoreResponse

CiteSpec == CiteInit /\ [][CiteNext]_vars

(***************************************************************************)
(* Specifications of the public pages                                      *)
(***************************************************************************)

\* a page load on the home page, the catalog holding manuscripts decided or not
PapersInit ==
  /\ token \in {NoToken} \cup Tokens
  /\ user = NoUser
  /\ loading = TRUE
  /\ mounted = FALSE
  /\ calls = EmptyBag
  /\ route = "/"
  /\ loginLoading = FALSE
  /\ loginMessage = ""
  /\ isLogin = TRUE
  /\ status \in [PaperIds -> {"pending", "approved", "rejected"}]
  /\ doi = [p \in PaperIds |-> IF status[p] = "approved" THEN DoiOf(p) ELSE NoDoi]
  /\ papersView = <<>>
  /\ applications = <<>>
  /\ adminLoading = TRUE
  /\ wordCount = <<>>
  /\ submitLoading = FALSE
  /\ submitMessage = NoMessage
  /\ filters = NoFilters
  /\ publicView = <<>>
  /\ papersLoading = TRUE
  /\ letter = NoLetter
  /\ applyLoading = FALSE
  /\ applyMessage = NoMessage
  /\ appRecords = 0
  /\ reqs = EmptyBag
  /\ userVia = NoToken
  /\ lastOp = Ran("load")
  /\ timeZone = 0
  /\ manuscript = NoManuscript
  /\ citationText = NoCitation

\* one page load: the catalog view against the collaborator, its queries in any
\* interleaving
PapersNext ==
  \/ restore
  \/ RestoreResponse
  \/ Navigate("/papers")
  \/ Navigate("/")
  \/ \E k \in FilterKeys : \E v \in FilterValues(k) : FilterChange(k, v)
  \/ PapersCollaborator
  \/ \E r \in BagToSet(reqs) : PapersDone(r)

PapersSpec == PapersInit /\ [][PapersNext]_vars

\* one page load: the catalog view and changes of its filters, every query
\* being answered by the collaborator
FilterNext ==
  \/ restore
  \/ RestoreResponse
  \/ Navigate("/papers")
  \/ \E k \in FilterKeys : \E v \in FilterValues(k) : FilterChange(k, v)
  \/ \E r \in BagToSet(reqs) : ServerPapers(r)
  \/ \E r \in BagToSet(reqs) : PapersDone(r)

FilterSpec == PapersInit /\ [][FilterNext]_vars

\* a page load on the application form
ApplyInit ==
  /\ token \in {NoToken} \cup Tokens
  /\ user = NoUser
  /\ loading = TRUE
  /\ mounted = FALSE
  /\ calls = EmptyBag
  /\ route = "/apply-admin"
  /\ loginLoading = FALSE
  /\ loginMessage = ""
  /\ isLogin = TRUE
  /\ status = [p \in PaperIds |-> "pending"]
  /\ doi = [p \in PaperIds |-> NoDoi]
  /\ papersView = <<>>
  /\ applications = <<>>
  /\ adminLoading = TRUE
  /\ wordCount = <<>>
  /\ submitLoading = FALSE
  /\ submitMessage = NoMessage
  /\ filters = NoFilters
  /\ publicView = <<>>
  /\ papersLoading = TRUE
  /\ letter = NoLetter
  /\ applyLoading = FALSE
  /\ applyMessage = NoMessage
  /\ appRecords = 0
  /\ reqs = EmptyBag
  /\ userVia = NoToken
  /\ lastOp = Ran("load")
  /\ timeZone = 0
  /\ manuscript = NoManuscript
  /\ citationText = NoCitation

\* one page load: the application form against the collaborator; the visitor
\* may leave the form and come back while an application is in flight
ApplyNext ==
  \/ restore
  \/ RestoreResponse
  \/ \E l \in Letters : TypeLetter(l)
  \/ ApplyClick
  \/ ApplyCollaborator
  \/ \E r \in BagToSet(reqs) : ApplyDone(r)
  \/ ApplyTimerFire
  \/ Navigate("/apply-admin")
  \/ Navigate("/")

ApplySpec == ApplyInit /\ [][ApplyNext]_vars

\* a page load on the home page, the catalog holding one pending manuscript
SiteInit ==
  /\ token \in {NoToken} \cup Tokens
  /\ user = NoUser
  /\ loading = TRUE
  /\ mounted = FALSE
  /\ calls = EmptyBag
  /\ route = "/"
  /\ loginLoading = FALSE
  /\ loginMessage = ""
  /\ isLogin = TRUE
  /\ status = [p \in PaperIds |-> IF p = 1 THEN "pending" ELSE "absent"]
  /\ doi = [p \in PaperIds |-> NoDoi]
  /\ papersView = <<>>
  /\ applications = <<>>
  /\ adminLoading = TRUE
  /\ wordCount = <<>>
  /\ submitLoading = FALSE
  /\ submitMessage = NoMessage
  /\ filters = NoFilters
  /\ publicView = <<>>
  /\ papersLoading = TRUE
  /\ letter = NoLetter
  /\ applyLoading = FALSE
  /\ applyMessage = NoMessage
  /\ appRecords = 0
  /\ reqs = EmptyBag
  /\ userVia = NoToken
  /\ lastOp = Ran("load")
  /\ timeZone = 0
  /\ manuscript = NoManuscript
  /\ citationText = NoCitation

\* what a visitor of the whole site types into the two forms
SiteWordCounts == {<<>>, <<"2", "0", "0", "0">>, <<"3", "e", "3">>}
SiteLetters == {l \in Letters : l.empty \/ l.words >= MinLetterWords - 1}

\* the pages of the site a visitor moves between
SiteRoutes == {"/submit", "/apply-admin", "/papers", "/admin"}

\* one page load: the submission form, the application form, the catalog view
\* and the admin console against the collaborator, in any interleaving
SiteNext ==
  \/ restore
  \/ RestoreResponse
  \/ \E r \in SiteRoutes : Navigate(r)
  \/ \E v \in SiteWordCounts : TypeWordCount(v)
  \/ SubmitClick
  \/ SubmitCollaborator
  \/ \E r \in BagToSet(reqs) : SubmitDone(r)
  \/ TimerFire
  \/ \E l \in SiteLetters : TypeLetter(l)
  \/ ApplyClick
  \/ ApplyCollaborator
  \/ \E r \in BagToSet(reqs) : ApplyDone(r)
  \/ ApplyTimerFire
  \/ PapersCollaborator
  \/ \E r \in BagToSet(reqs) : PapersDone(r)
  \/ \E id \in PaperIds, action \in {"approved", "rejected"} : ReviewClick(id, action)
  \/ Collaborator
  \/ AdminResponse

SiteSpec == SiteInit /\ [][SiteNext]_vars

(***************************************************************************)
(* Session properties                                                      *)
(***************************************************************************)

\* no session call is awaiting a response
Quiescent == calls = EmptyBag

\* C1: between operations run one after another, an identity is set only if
\* a token is persisted and the identity was returned by validating that token.
C1_IdentityOnlyWithValidatedToken ==
  (Quiescent /\ user # NoUser) => (token # NoToken /\ userVia = token)

\* C2: once all responses are handled no identity is set without a persisted
\* token, and a failed validation erases no token other than the one it was
\* started for.
C2_SerializedSession ==
  [][ /\ (calls' = EmptyBag /\ user' # NoUser) => token' # NoToken
      /\ (lastOp'.op = "meFail" /\ token # NoToken) => lastOp'.tok = token ]_vars

\* C3: a login whose credentials are rejected reports the error to its caller,
\* persists no token and leaves an empty session empty.
C3_RejectedLogin ==
  [][ lastOp'.op = "tokenRejected" =>
        /\ lastOp'.res = "rejected"
        /\ token' = token
        /\ user' = user
        /\ lastOp'.live => loginMessage' = "Error"
        /\ (user = NoUser /\ token = NoToken) => (user' = NoUser /\ token' = NoToken) ]_vars

\* a rejected login has just been reported on the login form, the session empty
C3_Witness ==
  /\ lastOp.op = "tokenRejected"
  /\ lastOp.res = "rejected"
  /\ loginMessage = "Error"
  /\ user = NoUser /\ token = NoToken

\* C4: when login() completes without an error, the issued token is persisted,
\* the identity is the one resolved for it and login() returned that identity.
C4_SuccessfulLogin ==
  (lastOp.by = "login" /\ lastOp.op \in {"meOk", "meFail"}) =>
     /\ lastOp.res = "resolved"
     /\ token = lastOp.tok
     /\ user = IdentityOf(lastOp.tok)
     /\ lastOp.value = user

\* C10: right after logout() the session has no identity and no persisted
\* token, whatever the state before, and logout() of that result changes nothing.
C10_Logout ==
  /\ lastOp.op = "logout" => (user = NoUser /\ token = NoToken)
  /\ LET once == logout(token, user)
         twice == logout(once.token, once.user)
     IN  /\ once = [token |-> NoToken, user |-> NoUser]
         /\ twice = once

\* logout() has just run while a validation of the erased token is still pending
C10_Witness ==
  /\ lastOp.op = "logout"
  /\ user = NoUser /\ token = NoToken
  /\ \E c \in BagToSet(calls) : c.at = "me"

\* C11: restore() never raises; with no persisted token it makes no call and
\* the session is empty; when the validation of the persisted token fails, the
\* token is erased and the session is empty.
C11_RestoreNeverKeepsBadToken ==
  [][ /\ lastOp'.by = "restore" => lastOp'.res # "rejected"
      /\ (lastOp'.op = "restore" /\ token = NoToken) =>
           (calls' = calls /\ user' = NoUser /\ token' = NoToken /\ ~loading')
      /\ (lastOp'.op = "meFail" /\ lastOp'.by = "restore") =>
           (user' = NoUser /\ token' = NoToken /\ ~loading') ]_vars

\* the validation started by restore() has just failed for the persisted token
C11_Witness ==
  /\ lastOp.op = "meFail" /\ lastOp.by = "restore" /\ lastOp.tok # NoToken
  /\ user = NoUser /\ token = NoToken /\ ~loading

\* C12: register() leaves the session as it was, whether it succeeds or fails:
\* the identity and the persisted token are the same before and after.
C12_RegisterKeepsSession ==
  [][ lastOp'.op \in {"register", "registerOk", "registerFailed"} =>
        (user' = user /\ token' = token /\ userVia' = userVia) ]_vars

\* a registration has just succeeded on the form and nobody is logged in
C12_Witness ==
  /\ lastOp.op = "registerOk"
  /\ loginMessage = "Registered"
  /\ user = NoUser /\ token = NoToken

(***************************************************************************)
(* Admin console and review properties                                     *)
(***************************************************************************)

\* the ids in a list of the dashboard
Shown(ps) == {ps[i] : i \in 1..Len(ps)}

\* how many decisions sent by the mounted console have not reached the collaborator
FreshReviews(rs) ==
  LET S == {e \in BagToSet(rs) : e.kind = "review" /\ e.resp = "sent" /\ e.live}
      Sum[T \in SUBSET S] ==
        IF T = {} THEN 0
        ELSE LET x == CHOOSE y \in T : TRUE IN CopiesIn(x, rs) + Sum[T \ {x}]
  IN  Sum[S]

\* C5: a decide request is sent only while the session identity has role admin
\* or super_admin, and a caller with no identity or with role student who
\* reaches for the console's decide is told of an AuthorizationError, no
\* request being sent.
C5_DeniedWithAuthorizationError ==
  [][ /\ FreshReviews(reqs') > FreshReviews(reqs) => lastOp'.op = "review"
      /\ lastOp'.op = "review" => (user # NoUser /\ IsAdmin(user))
      /\ lastOp'.op = "adminDenied" =>
           /\ ~IsAdmin(user)
           /\ BagCardinality(reqs') <= BagCardinality(reqs)
           /\ loginMessage' = "AuthorizationError" ]_vars

\* C7: a decision changes a manuscript only while it is Pending: the decide
\* that reaches the collaborator then succeeds and sets Approved or Rejected,
\* every decide (with admin access) reaching it later fails with
\* InvalidStateTransition, and a status that has left Pending never changes.
C7_DecideOnce ==
  [][ /\ \A p \in PaperIds : status[p] # "pending" => status'[p] = status[p]
      /\ lastOp'.op = "serverReview" =>
           LET p == lastOp'.id
           IN  /\ lastOp'.res = "ok" =>
                    (status[p] = "pending" /\ status'[p] \in {"approved", "rejected"})
               /\ (status[p] = "pending" /\ IsAdminToken(lastOp'.tok)) =>
                    (lastOp'.res = "ok" /\ status'[p] # "pending")
               /\ (status[p] # "pending" /\ IsAdminToken(lastOp'.tok)) =>
                    lastOp'.res = "InvalidStateTransition" ]_vars

\* a second decide on a decided manuscript has just been refused
C7_Witness ==
  /\ lastOp.op = "serverReview"
  /\ lastOp.res = "InvalidStateTransition"
  /\ status[lastOp.id] # "pending"

\* C9: the answer to a successful decide on p removes p from the pending
\* view, and no answer to a decide brings back a decided manuscript that the
\* view no longer shows.
C9_DecidedStaysAbsent ==
  [][ lastOp'.op = "reviewDone" =>
        /\ (lastOp'.res = "ok" /\ lastOp'.live) => lastOp'.id \notin Shown(papersView')
        /\ \A p \in PaperIds :
             (status[p] # "pending" /\ p \notin Shown(papersView))
               => p \notin Shown(papersView') ]_vars

(***************************************************************************)
(* Submission properties                                                   *)
(***************************************************************************)

\* C6: a manuscript has a doi exactly when it is approved, and the notice of a
\* successful submission names no doi.
C6_DoiIffApproved ==
  /\ \A p \in PaperIds : (doi[p] # NoDoi) <=> (status[p] = "approved")
  /\ submitMessage.kind = "success" => submitMessage.doi = NoDoi

\* C8: a submission whose word_count is not an integer of 2000..8000 is
\* rejected before any request: no POST /submit-paper carries such a word_count.
C8_InvalidWordCountNeverSent ==
  \A r \in BagToSet(reqs) : (r.kind = "submit" /\ r.resp = "sent") => InRange(r.wc)

(***************************************************************************)
(* Catalog, access and form properties                                     *)
(***************************************************************************)

\* C13: the anonymous default list never shows a manuscript that is not
\* approved; a manuscript becomes approved only by a decide that succeeded, and
\* a manuscript just submitted is pending without a doi.
C13_ListedOnlyAfterApproval ==
  [][ /\ \A p \in Shown(publicView') : status'[p] = "approved"
      /\ \A r \in BagToSet(reqs') :
           (r.kind = "papers" /\ r.resp = "ok") =>
             \A p \in Shown(r.data) : status'[p] = "approved"
      /\ \A p \in PaperIds :
           (status'[p] = "approved" /\ status[p] # "approved") =>
             (lastOp'.op = "serverReview" /\ lastOp'.res = "ok" /\ lastOp'.id = p)
      /\ (lastOp'.op = "serverSubmit" /\ lastOp'.res = "ok") =>
           (status'[lastOp'.id] = "pending" /\ doi'[lastOp'.id] = NoDoi) ]_vars

\* the catalog view shows an approved manuscript and not the one submitted
\* after it, which is pending
C13_Witness ==
  /\ route = "/papers"
  /\ Shown(publicView) = {1}
  /\ status[1] = "approved"
  /\ status[2] = "pending"

\* how many reads sent by the mounted console have not reached the collaborator
FreshFetches(rs) ==
  LET S == {e \in BagToSet(rs) :
              e.kind \in {"pending", "apps"} /\ e.resp = "sent" /\ e.live}
      Sum[T \in SUBSET S] ==
        IF T = {} THEN 0
        ELSE LET x == CHOOSE y \in T : TRUE IN CopiesIn(x, rs) + Sum[T \ {x}]
  IN  Sum[S]

\* C14: the reads of the admin console are sent only while the session
\* identity has role admin or super_admin, the two roles being treated alike:
\* either one opens the console and both reads are sent; for no identity or a
\* student the console is not shown and nothing is sent.
C14_AdminReadsOnlyByAdmin ==
  [][ /\ FreshFetches(reqs') > FreshFetches(reqs) =>
           (route' = "/admin" /\ user'.role \in {"admin", "super_admin"})
      /\ lastOp'.op = "adminOpened" =>
           /\ user.role \in {"admin", "super_admin"}
           /\ FreshFetches(reqs') = 2
      /\ lastOp'.op = "adminDenied" =>
           /\ user.role \notin {"admin", "super_admin"}
           /\ route' = "/login"
           /\ FreshFetches(reqs') = 0 ]_vars

\* a super_admin has just opened the console and its two reads are in flight
C14_Witness ==
  /\ lastOp.op = "adminOpened"
  /\ user.role = "super_admin"
  /\ FreshFetches(reqs) = 2

\* C15: a decide that fails at the collaborator or in transport is reported
\* to its caller: the console that sent it shows an error outcome, and only
\* the validation of restore() is swallowed.
C15_FailuresReported ==
  [][ /\ (lastOp'.op = "reviewDone" /\ lastOp'.res = "fail" /\ lastOp'.live) =>
           adminVars' # adminVars
      /\ (lastOp'.op = "meFail" /\ lastOp'.by = "login") => lastOp'.res = "rejected" ]_vars

\* C16: no authenticated request is sent while no token is persisted: every
\* request of the console and every GET /current_user on its way to the
\* collaborator carries a token.
C16_BearerTokenAlwaysPresent ==
  /\ \A r \in BagToSet(reqs) :
       (r.kind \in AdminKinds /\ r.resp = "sent") => r.tok # NoToken
  /\ \A c \in BagToSet(calls) : c.at = "me" => c.tok # NoToken

\* how many requests of a kind are on their way to the collaborator
SentCount(rs, kind) ==
  LET S == {e \in BagToSet(rs) : e.kind = kind /\ e.resp = "sent"}
      Sum[T \in SUBSET S] ==
        IF T = {} THEN 0
        ELSE LET x == CHOOSE y \in T : TRUE IN CopiesIn(x, rs) + Sum[T \ {x}]
  IN  Sum[S]

\* how many Manuscript records exist
Created(st) == Cardinality({p \in PaperIds : st[p] # "absent"})

\* C17: each invocation of submit, apply or decide sends exactly one request,
\* and a request is sent by nothing else: no answer, failure or timer sends one
\* again; a Manuscript is created only by one submit request reaching the
\* collaborator, which it uses up.
C17_OneRequestPerInvocation ==
  [][ /\ \A k \in {"submit", "apply", "review"} :
           LET click == CASE k = "submit" -> "submit"
                          [] k = "apply" -> "apply"
                          [] k = "review" -> "review"
           IN  /\ SentCount(reqs', k) > SentCount(reqs, k) => lastOp'.op = click
               /\ lastOp'.op = click => SentCount(reqs', k) = SentCount(reqs, k) + 1
      /\ Created(status') # Created(status) =>
           /\ lastOp'.op = "serverSubmit"
           /\ Created(status') = Created(status) + 1
           /\ SentCount(reqs', "submit") = SentCount(reqs, "submit") - 1
      /\ appRecords' # appRecords =>
           /\ lastOp'.op = "serverApply"
           /\ appRecords' = appRecords + 1
           /\ SentCount(reqs', "apply") = SentCount(reqs, "apply") - 1 ]_vars

\* the failure of a submission has just been handled: no request of it is left
\* and no Manuscript was created
C17_Witness ==
  /\ lastOp.op = "submitDone" /\ lastOp.res = "fail" /\ lastOp.live
  /\ submitMessage.kind = "error"
  /\ SentCount(reqs, "submit") = 0
  /\ Created(status) = 1

\* the pages of submitManuscript, applyAsReviewer and browsePublished
PublicRoutes == {"/submit", "/apply-admin", "/papers"}

\* C18: submitting, applying and browsing are open to every session state:
\* whoever the identity is, opening one of the three pages shows that page,
\* a click on a valid form sends its request, and the requests of the three
\* operations carry no token.
C18_PublicOperationsForAnyIdentity ==
  [][/\ \A r \in BagToSet(reqs') :
          r.kind \in {"submit", "apply", "papers"} => r.tok = NoToken
     /\ \A r \in PublicRoutes : Navigate(r) => route' = r
     /\ (SubmitClick /\ wordCountValid(wordCount))
          => SentCount(reqs', "submit") = SentCount(reqs, "submit") + 1
     /\ (ApplyClick /\ letterValid(letter))
          => SentCount(reqs', "apply") = SentCount(reqs, "apply") + 1]_vars

\* a visitor with no identity and no token has just sent a submission
C18_Witness ==
  /\ lastOp.op = "submit"
  /\ user = NoUser /\ token = NoToken
  /\ SentCount(reqs, "submit") = 1

\* C19: an application whose motivation letter has fewer than 500 words, or
\* none, is rejected before it is sent, and no ReviewerApplication is created
\* from such a letter.
C19_ShortLetterRejected ==
  [][/\ (ApplyClick /\ letter.words < MinLetterWords)
          => /\ SentCount(reqs', "apply") = SentCount(reqs, "apply")
             /\ appRecords' = appRecords
     /\ appRecords' # appRecords
          => /\ lastOp'.op = "serverApply"
             /\ lastOp'.value.letter.words >= MinLetterWords]_vars

\* C20: a change of the filters sends one query that holds each non-empty
\* field with its value and no empty field, and the answer to a query holds
\* exactly the published manuscripts that match every parameter of the query
\* (an empty query returns all of them).
C20_ListFollowsFilter ==
  [][/\ lastOp'.op = "filter"
          => \E r \in BagToSet(reqs') :
               /\ r.kind = "papers" /\ r.resp = "sent" /\ r.live
               /\ reqs' = reqs (+) One(r)
               /\ \A k \in FilterKeys :
                    /\ filters'[k] # "" => <<k, filters'[k]>> \in r.q
                    /\ filters'[k] = "" => \A kv \in r.q : kv[1] # k
               /\ \A kv \in r.q : kv[1] \in FilterKeys /\ kv[2] = filters'[kv[1]]
     /\ lastOp'.op = "serverPapers"
          => LET q == lastOp'.value.q
                 data == lastOp'.value.data
             IN  \A n \in PaperIds :
                   (\E i \in 1..Len(data) : data[i] = n)
                     <=> /\ status[n] = "approved"
                         /\ \A kv \in q : Attr(n, kv[1]) = kv[2]]_vars

\* a query by category and author is answered with the one manuscript that
\* matches both, the other published manuscript being left out
C20_Witness ==
  /\ lastOp.op = "serverPapers"
  /\ lastOp.value.q = {<<"category", "fisica">>, <<"author", "ana">>}
  /\ lastOp.value.data = <<1>>
  /\ status[2] = "approved"
  /\ filters = [category |-> "fisica", author |-> "ana", institution |-> ""]

\* C21: the citation of a manuscript is the authors joined by ", " in their
\* order, the year of submission_date, the title, the journal name and the
\* doi, and it is a function of the manuscript alone: whatever the browser,
\* the same manuscript gives the same text.
C21_CitationIsFunctionOfManuscript ==
  lastOp.op = "cite"
    => /\ citationText =
            join(manuscript.authors, ", ") \o ". ("
              \o ToString(manuscript.submission_date.year) \o "). "
              \o manuscript.title \o ". " \o JournalName \o ". DOI: " \o manuscript.doi
       /\ \A tz \in TimeZones : generateCitation(manuscript, tz) = citationText

\* C22: once every query of the catalog view has been answered and handled,
\* the manuscripts shown are the result for the filters as they are now,
\* whatever the order in which the answers arrived.
C22_LatestFilterShown ==
  (/\ mounted /\ route = "/papers" /\ ~papersLoading
   /\ lastOp.op = "papersDone" /\ lastOp.res = "ok"
   /\ \A r \in BagToSet(reqs) : r.kind # "papers")
    => publicView = PublishedSeq(status, Query(filters))

\* C23: with an admin's or super_admin's token persisted at startup, opening
\* the admin console while restore is in flight does not send the caller to
\* the login page, and once restore has resolved the identity the caller is
\* at the admin console.
C23_AdminOpenedDuringRestore ==
  [][/\ (/\ lastOp'.op \in {"adminOpened", "adminDenied"}
         /\ \E c \in BagToSet(calls) :
              c.op = "restore" /\ c.tok = token /\ IsAdminToken(c.tok))
          => route' # "/login"
     /\ (/\ lastOp.op \in {"adminOpened", "adminDenied"}
         /\ lastOp'.op = "meOk" /\ lastOp'.by = "restore"
         /\ IsAdmin(user'))
          => route' = "/admin"]_vars

\* C24: on every startup the loading flag of the session manager becomes
\* false and stays false: at once when no token is persisted, with the answer
\* or the failure of GET /current_user when one is; no later login or logout
\* makes it true again.
C24_LoadingEnds ==
  /\ <>[](~loading)
  /\ [][/\ (lastOp'.op = "restore" /\ token = NoToken) => ~loading'
        /\ (lastOp'.op = "restore" /\ token # NoToken) => loading'
        /\ (loading /\ ~loading' /\ lastOp'.op # "restore")
             => lastOp'.op \in {"meOk", "meFail"}
        /\ ~loading => ~loading']_vars

\* the startup validation of a persisted token has failed and loading is false
C24_Witness ==
  /\ lastOp.op = "meFail" /\ lastOp.by = "restore"
  /\ ~loading

\* C25: a decide request that fails, rejected by the collaborator or lost by
\* the transport, leaves the pending view of the console as it was: the
\* manuscript stays listed and no other manuscript is added or removed.
C25_FailedDecideKeepsView ==
  [][\A r \in BagToSet(reqs) :
       (ReviewDone(r) /\ r.resp # "ok")
         => /\ papersView' = papersView
            /\ applications' = applications
            /\ adminLoading' = adminLoading]_vars

\* the console has handled the failure of a decision on a manuscript that it
\* still lists
C25_Witness ==
  /\ lastOp.op = "reviewDone" /\ lastOp.res = "fail" /\ lastOp.live
  /\ route = "/admin"
  /\ \E i \in 1..Len(papersView) : papersView[i] = lastOp.id

\* how many requests of one kind in rs belong to the form that is mounted,
\* sent or answered and not yet handled
LiveCount(rs, kind) ==
  LET S == {e \in BagToSet(rs) : e.kind = kind /\ e.live}
      Sum[T \in SUBSET S] ==
        IF T = {} THEN 0
        ELSE LET x == CHOOSE y \in T : TRUE IN CopiesIn(x, rs) + Sum[T \ {x}]
  IN  Sum[S]

\* C26: the loading flag of the submit form is true exactly from the sending
\* of its request until the answer or the failure is handled, false again
\* after either, and the form never has two submit requests in flight.
C26_SubmitLoading ==
  /\ LiveCount(reqs, "submit") <= 1
  /\ submitLoading <=> LiveCount(reqs, "submit") = 1
  /\ lastOp.op = "submit" => submitLoading
  /\ (lastOp.op = "submitDone" /\ lastOp.live) => ~submitLoading

\* the form has handled the failure of its request and can submit again
C26_Witness ==
  /\ lastOp.op = "submitDone" /\ lastOp.live /\ lastOp.res = "fail"
  /\ route = "/submit"
  /\ ~submitLoading
  /\ submitMessage.kind = "error"

====
